---- MODULE Spec2Model ----
(***************************************************************************)
(* A model of the two acquisition pipelines of ffrd-model-developer:       *)
(*   src/src/spatially_varied_curve_numbers.py  (SSURGO soils, vector)     *)
(*   src/src/spatially_varied_mannings_n.py     (NLCD land cover, raster)  *)
(*                                                                         *)
(* The module holds several specifications over one set of variables;     *)
(* each one runs one component and leaves the other components idle:      *)
(*   SpecTiler     split_extent                                            *)
(*   Spec          acquire_ssurgo_data and get_nlcd_and_convert            *)
(*   SpecHydro     generate_soils_classes / get_soils_hydro_group          *)
(*   SpecMannings  convert_to_mannings                                     *)
(*   SpecClip      the AOI clipping step of both pipelines                 *)
(***************************************************************************)
EXTENDS Integers, Sequences, FiniteSets, TLC

VARIABLES
    \* ---- split_extent ----
    extent,        \* <<min_x, max_x, min_y, max_y>>, in units of 1e-8 degree
    gdf,           \* the reference geometries: a set of closed rectangles
    row, col,      \* the loop indices of split_extent
    subextents,    \* the list split_extent builds
    tpc,           \* "idle" | "loop" | "done"
    \* ---- acquire_ssurgo_data / get_nlcd_and_convert ----
    pipeline,      \* "vector" | "raster" | "idle"
    area,          \* span_x * span_y of the AOI bounding box, in square degrees
    csv,           \* nlcd_classifications_path: [given, fieldnames]
    num_cores,     \* mp.cpu_count()
    files,         \* the output directory: file name -> the data it holds
    written,       \* the files this run has written
    pc,            \* the position of the run
    outcome,       \* "running" | "ok" (returned) | "error" (raised)
    aoi_read,      \* the AOI file has been read
    tiler_calls,   \* how many times split_extent was called
    tile_extents,  \* the list split_extent returned (tile ids 1..n)
    requests,      \* the remote requests issued so far, in order
    results,       \* vector: pool.map's result list, by tile ("pending" until fetched)
    gdf_ssurgo,    \* vector: the retrieved datasets
    failed_url_list, \* vector: the urls that failed in the main pass
    rerun_results, \* vector: the datasets retrieved by the retry pass
    failed_img,    \* raster: the tiles that failed in the main pass
    tile_paths,    \* raster: the land-cover tile files to mosaic
    tile_paths_mannings, \* raster: the Manning's n tile files to mosaic
    idx,           \* the loop index of the current pass (0-based)
    \* ---- generate_soils_classes / get_soils_hydro_group ----
    soils_gdf,     \* the soil polygons: polygon number -> its mukey
    status_code,   \* response.status_code of the tabular service
    table,         \* result["Table"]: rows <<mukey, comppct_r, hydgrp>>
    grouped_data,  \* rows [hydgrp, mukey, pct], sorted by hydgrp then mukey
    hydrogroup_data, \* one row of grouped_data per mukey
    soil_classes,  \* the rows written to ssurgo_soil_classes.gpkg
    hfiles,        \* the files get_soils_hydro_group has written
    hpc,           \* "idle" | "acquire" | "request" | "classify" | "done"
    houtcome,      \* "running" | "returned" | "raised"
    \* ---- convert_to_mannings ----
    nlcd_classifications_path, \* None, or the rows of the user's CSV
    image,         \* the band of the raster at image_path: rows of codes
    df,            \* the lookup frame: rows <<value, mannings_n>>
    raster_data,   \* src.read(1)
    manningsn_data, \* the converted array
    dst,           \* the raster written to out_img_mannings
    mpc,           \* "idle" | "load" | "read" | "apply" | "write" | "done"
    \* ---- the clip to the AOI that ends both pipelines ----
    clip_gdf,      \* the AOI frame: [crs, cells]
    original_crs,  \* the CRS the AOI was read in (vector pipeline)
    merged_gdf,    \* the merged soil features: [crs, features]
    ssurgo_gpkg,   \* the features written to ssurgo_data.gpkg
    rasters,       \* nlcd_clip.tif and mannings_n_clip.tif: [nodata, window, band]
    clipped,       \* the rasters clip_image has rewritten
    clip_inputs,   \* what the clip step was given: [gdf, merged_gdf, rasters]
    cpc,           \* "idle" | "reproject" | "clip" | "export" | "nlcd" | "mannings" | "done"
    coutcome,      \* "running" | "ok" | "error"
    \* ---- the requests built from the tile list ----
    u_pipeline,    \* "idle" | "vector" | "raster"
    u_tile_extents, \* the list split_extent returned: tuples (min_x, max_x, min_y, max_y)
    url_list,      \* the urls built so far, in the order they were built
    u_i,           \* the loop index i (0-based)
    upc,           \* "idle" | "loop" | "done" | "aborted"
    \* ---- get_data ----
    wfs_url,       \* the url get_data is called with
    attempts,      \* what the reads made so far did, in order
    failed_url,    \* the local failed_url: None or the url
    get_data_result, \* the list get_data returned: <<dataset, failed_url>>
    gpc            \* "idle" | "loop" | "return" | "done"

vars_tiler == <<extent, gdf, row, col, subextents, tpc>>

vars_pipe ==
    <<pipeline, area, csv, num_cores, files, written, pc, outcome, aoi_read,
      tiler_calls, tile_extents, requests, results, gdf_ssurgo, failed_url_list,
      rerun_results, failed_img, tile_paths, tile_paths_mannings, idx>>

vars_hydro ==
    <<soils_gdf, status_code, table, grouped_data, hydrogroup_data,
      soil_classes, hfiles, hpc, houtcome>>

vars_mannings ==
    <<nlcd_classifications_path, image, df, raster_data, manningsn_data, dst, mpc>>

vars_clip ==
    <<clip_gdf, original_crs, merged_gdf, ssurgo_gpkg, rasters, clipped,
      clip_inputs, cpc, coutcome>>

vars_url == <<u_pipeline, u_tile_extents, url_list, u_i, upc>>

vars_get == <<wfs_url, attempts, failed_url, get_data_result, gpc>>

\* the variables of the components a specification leaves idle
NotTiler == <<vars_pipe, vars_hydro, vars_mannings, vars_clip, vars_url, vars_get>>
NotPipe == <<vars_tiler, vars_hydro, vars_mannings, vars_clip, vars_url, vars_get>>
NotHydro == <<vars_tiler, vars_pipe, vars_mannings, vars_clip, vars_url, vars_get>>
NotMannings == <<vars_tiler, vars_pipe, vars_hydro, vars_clip, vars_url, vars_get>>
NotClip == <<vars_tiler, vars_pipe, vars_hydro, vars_mannings, vars_url, vars_get>>
NotUrl == <<vars_tiler, vars_pipe, vars_hydro, vars_mannings, vars_clip, vars_get>>
NotGet == <<vars_tiler, vars_pipe, vars_hydro, vars_mannings, vars_clip, vars_url>>

(***************************************************************************)
(* Arithmetic.  Coordinates are integers counting units of 1e-8 (the      *)
(* grid of Python's round(x, 8)); a quotient that the code keeps as a     *)
(* float is kept exact as numerator and denominator until it is rounded.  *)
(* The representation error of binary floating point is not modelled.     *)
(***************************************************************************)

\* math.ceil(a / b) for b > 0
Ceil(a, b) == -((-a) \div b)

\* round(a / b) to the nearest integer, ties to even (Python's round), b > 0
Round(a, b) ==
    LET q == a \div b
        r == a % b
    IN  IF 2 * r < b THEN q
        ELSE IF 2 * r > b THEN q + 1
        ELSE IF q % 2 = 0 THEN q ELSE q + 1

(***************************************************************************)
(* split_extent (curve numbers module; the Manning's n module holds the   *)
(* same function with subextent_size = 100000 and tile_margin = 120).     *)
(***************************************************************************)

\* subextent_size = 0.25 degree, in units of 1e-8 degree
subextent_size == 25000000

\* tile_margin = 0.0015 degree, in units of 1e-8 degree
tile_margin == 150000

min_x == extent[1]
max_x == extent[2]
min_y == extent[3]
max_y == extent[4]

num_rows == Ceil(max_y - min_y, subextent_size)
num_cols == Ceil(max_x - min_x, subextent_size)

\* step_y = round((max_y - min_y) / num_rows, 8): rounded to the grid
step_y == Round(max_y - min_y, num_rows)

\* step_x = (max_x - min_x) / num_cols is not rounded: the model keeps
\* min_x + c * step_x as the exact quotient StepXNum(c) / num_cols.
StepXNum(c) == min_x * num_cols + c * (max_x - min_x)

\* min_y + r * step_y: the edge between rows r - 1 and r before the margin
EdgeY(r) == min_y + r * step_y

\* round(., 8) of the edge with the margin subtracted or added
subextent_min_x(c) == Round(StepXNum(c) - tile_margin * num_cols, num_cols)
subextent_max_x(c) == Round(StepXNum(c + 1) + tile_margin * num_cols, num_cols)
subextent_min_y(r) == EdgeY(r) - tile_margin
subextent_max_y(r) == EdgeY(r + 1) + tile_margin

\* the tuple appended to subextents: (min_x, max_x, min_y, max_y)
Subextent(r, c) ==
    <<subextent_min_x(c), subextent_max_x(c), subextent_min_y(r), subextent_max_y(r)>>

\* shapely: two closed rectangles intersect when they share a point
BoxIntersects(a, b) ==
    /\ a[1] <= b[2] /\ b[1] <= a[2]
    /\ a[3] <= b[4] /\ b[3] <= a[4]

\* gdf.intersects(subextent_box).any()
IntersectsAny(g, b) == \E geom \in g : BoxIntersects(geom, b)

\* ---- the inputs of split_extent ----

\* extents span k * SpanUnit on each axis, k in 1..MaxSpanUnits
SpanUnit == 10000000
MaxSpanUnits == 7
MaxOrigin == 1

Spans == {k * SpanUnit : k \in 1..MaxSpanUnits}
Origins == {k * 3333333 : k \in 0..MaxOrigin}

\* width of the corner pieces of an area of interest made of several parts
CornerSize == 1000000

\* areas of interest whose bounding box is the extent e
AOIShapes(e) ==
    {   \* one rectangle filling the extent
        {e},
        \* two pieces in opposite corners
        { <<e[1], e[1] + CornerSize, e[3], e[3] + CornerSize>>,
          <<e[2] - CornerSize, e[2], e[4] - CornerSize, e[4]>> },
        \* a strip along the left edge and a strip along the bottom edge
        { <<e[1], e[1] + CornerSize, e[3], e[4]>>,
          <<e[1], e[2], e[3], e[3] + CornerSize>> } }

TilerIdle ==
    /\ extent = <<0, 0, 0, 0>>
    /\ gdf = {}
    /\ row = 0
    /\ col = 0
    /\ subextents = <<>>
    /\ tpc = "idle"

\* split_extent is entered: subextents = [], the loops start at (0, 0)
InitTiler ==
    /\ \E ox \in Origins, oy \in Origins, sx \in Spans, sy \in Spans :
          extent = <<ox, ox + sx, oy, oy + sy>>
    /\ gdf \in AOIShapes(extent)
    /\ row = 0
    /\ col = 0
    /\ subextents = <<>>
    /\ tpc = "loop"

\* the position of the nested loops after the iteration (r, c)
NextCell(r, c) == IF c + 1 < num_cols THEN <<r, c + 1>> ELSE <<r + 1, 0>>

Emit_NoPrune(list, r, c) == Append(list, Subextent(r, c))

\* the body of the inner loop for (row, col): the subextent is appended
\* when its box intersects the reference geometry
Emit(list, r, c) ==
    IF IntersectsAny(gdf, Subextent(r, c))
        THEN Append(list, Subextent(r, c))
        ELSE list

\* one iteration of "for row ... for col ..."
SplitStep ==
    /\ tpc = "loop"
    /\ row < num_rows
    /\ subextents' = Emit(subextents, row, col)
    /\ row' = NextCell(row, col)[1]
    /\ col' = NextCell(row, col)[2]
    /\ UNCHANGED NotTiler
    /\ UNCHANGED <<extent, gdf, tpc>>

\* the loops are exhausted: return subextents
SplitReturn ==
    /\ tpc = "loop"
    /\ row >= num_rows
    /\ tpc' = "done"
    /\ UNCHANGED NotTiler
    /\ UNCHANGED <<extent, gdf, row, col, subextents>>

NextTiler == SplitStep \/ SplitReturn


(***************************************************************************)
(* The two pipelines.  A run is one call of acquire_ssurgo_data ("vector") *)
(* or of get_nlcd_and_convert ("raster").  split_extent is modelled above; *)
(* here a call of it returns a list of n tiles, 1 <= n <= MaxTiles.        *)
(***************************************************************************)

MaxTiles == 3
MaxCores == 4

\* "if area <= 9" (get_nlcd_and_convert)
AreaThreshold == 9

Areas == {AreaThreshold - 1, AreaThreshold, AreaThreshold + 1}

\* ---- files of the output directory ----

TileFile(kind, k, again) == [kind |-> kind, tile |-> k, again |-> again]

\* nlcd_{i}.tif and mannings_n_{i}.tif, i = k - 1 (main pass)
NlcdTile(k) == TileFile("nlcd", k, FALSE)
ManningsTile(k) == TileFile("mannings_n", k, FALSE)
\* nlcd_{i}_{i}.tif and mannings_n_{i}_{i}.tif (retry pass)
NlcdRetryTile(k) == TileFile("nlcd", k, TRUE)
ManningsRetryTile(k) == TileFile("mannings_n", k, TRUE)

NlcdClip == TileFile("nlcd_clip", 0, FALSE)
ManningsClip == TileFile("mannings_n_clip", 0, FALSE)
SsurgoData == TileFile("ssurgo_data", 0, FALSE)

FinalFiles == {NlcdClip, ManningsClip, SsurgoData}

\* what a file holds: a sequence of pieces, each the answer to one request
\* (tile k of the main or the retry pass, or the whole extent), or data left
\* by an earlier run
Piece(k, pass) == [tile |-> k, pass |-> pass]
StaleData == <<Piece(0, "stale")>>

Put(fs, f, c) == [g \in (DOMAIN fs) \cup {f} |-> IF g = f THEN c ELSE fs[g]]
Remove(fs, gone) == [g \in (DOMAIN fs) \ gone |-> fs[g]]
Exists(fs, f) == f \in DOMAIN fs

\* the states the output directory can be in when a run starts: empty; the
\* final files of an earlier run that finished; the main-pass tile files of an
\* earlier run that stopped early; tile files of both passes and final
\* files left by several earlier runs
MainTileFiles == {NlcdTile(k) : k \in 1..MaxTiles} \cup {ManningsTile(k) : k \in 1..MaxTiles}
RetryTileFiles ==
    {NlcdRetryTile(k) : k \in 1..MaxTiles} \cup {ManningsRetryTile(k) : k \in 1..MaxTiles}
OutputDirs ==
    { [f \in D |-> StaleData] :
        D \in { {}, FinalFiles, MainTileFiles,
                MainTileFiles \cup RetryTileFiles \cup FinalFiles } }

\* ---- check_fields_in_csv ----

required_fields == <<"value", "nlcd_name", "mannings_n">>

FieldsMissing_OnlyValue(fieldnames) == {"value"} \ fieldnames

\* the required fields that the CSV header lacks; check_fields_in_csv raises
\* ValueError when there is one
FieldsMissing(fieldnames) ==
    {required_fields[j] : j \in 1..Len(required_fields)} \ fieldnames

CsvInputs ==
    {[given |-> FALSE, fieldnames |-> {}]} \cup
    {[given |-> TRUE, fieldnames |-> h] :
        h \in SUBSET {"value", "nlcd_name", "mannings_n"}}

\* ---- get_data ----

\* what one gpd.read_file call does: raise, return an empty frame, or return data
ReadOutcomes == {"raise", "empty", "data"}
Reads == [1..3 -> ReadOutcomes]

\* the value of the local gdf_ssurgo after the reads up to n: the result of the
\* last read that did not raise ("unset" when every read raised)
RECURSIVE LastRead(_, _)
LastRead(reads, n) ==
    IF n = 0 THEN "unset"
    ELSE IF reads[n] = "raise" THEN LastRead(reads, n - 1)
    ELSE reads[n]

\* get_data returns [gdf_ssurgo, None] when the local is set and not empty
GetDataOk(reads) == LastRead(reads, 3) = "data"

\* ---- initial state ----

PipeIdle ==
    /\ pipeline = "idle"
    /\ area = 0
    /\ csv = [given |-> FALSE, fieldnames |-> {}]
    /\ num_cores = 0
    /\ files = << >>
    /\ written = {}
    /\ pc = "idle"
    /\ outcome = "running"
    /\ aoi_read = FALSE
    /\ tiler_calls = 0
    /\ tile_extents = << >>
    /\ requests = << >>
    /\ results = << >>
    /\ gdf_ssurgo = << >>
    /\ failed_url_list = << >>
    /\ rerun_results = << >>
    /\ failed_img = << >>
    /\ tile_paths = << >>
    /\ tile_paths_mannings = << >>
    /\ idx = 0

InitPipe ==
    /\ pipeline \in {"vector", "raster"}
    /\ area \in Areas
    /\ csv \in (IF pipeline = "raster" THEN CsvInputs
                ELSE {[given |-> FALSE, fieldnames |-> {}]})
    /\ num_cores \in (IF pipeline = "vector" THEN 1..MaxCores ELSE {0})
    /\ files \in OutputDirs
    /\ written = {}
    /\ pc = "start"
    /\ outcome = "running"
    /\ aoi_read = FALSE
    /\ tiler_calls = 0
    /\ tile_extents = << >>
    /\ requests = << >>
    /\ results = << >>
    /\ gdf_ssurgo = << >>
    /\ failed_url_list = << >>
    /\ rerun_results = << >>
    /\ failed_img = << >>
    /\ tile_paths = << >>
    /\ tile_paths_mannings = << >>
    /\ idx = 0

\* the run raises: nothing else changes
Raise ==
    /\ outcome' = "error"
    /\ pc' = "done"

TileList(n) == [k \in 1..n |-> k]

\* a request and how it ended
Request(k, pass, ok) == [tile |-> k, pass |-> pass, ok |-> ok]

\* the elements of a sequence that satisfy a test, in order
OkTiles(res) == SelectSeq(TileList(Len(res)), LAMBDA k : res[k] = "ok")
FailedTiles_All(res) == TileList(Len(res))
FailedTiles(res) == SelectSeq(TileList(Len(res)), LAMBDA k : res[k] = "fail")

RECURSIVE Flatten(_)
Flatten(ss) == IF ss = << >> THEN << >> ELSE Head(ss) \o Flatten(Tail(ss))

\* ---- acquire_ssurgo_data ----

\* read the AOI, buffer its bounding box, compute the area, call split_extent
\* (always) and build one url per tile
VectorBegin ==
    /\ pc = "start"
    /\ pipeline = "vector"
    /\ aoi_read' = TRUE
    /\ tiler_calls' = tiler_calls + 1
    /\ \E n \in 1..MaxTiles :
          /\ tile_extents' = TileList(n)
          /\ results' = [k \in 1..n |-> "pending"]
    /\ pc' = "pool"
    /\ UNCHANGED NotPipe
    /\ UNCHANGED <<pipeline, area, csv, num_cores, files, written, outcome,
                   requests, gdf_ssurgo, failed_url_list, rerun_results,
                   failed_img, tile_paths, tile_paths_mannings, idx>>

\* int(num_cores / 4)
PoolSize(n) == n \div 4

\* mp.Pool(int(num_cores / 4)): raises ValueError for fewer than 1 process
VectorPool ==
    /\ pc = "pool"
    /\ IF PoolSize(num_cores) < 1
          THEN Raise
          ELSE pc' = "fetch" /\ UNCHANGED outcome
    /\ UNCHANGED NotPipe
    /\ UNCHANGED <<pipeline, area, csv, num_cores, files, written, aoi_read,
                   tiler_calls, tile_extents, requests, results, gdf_ssurgo,
                   failed_url_list, rerun_results, failed_img, tile_paths,
                   tile_paths_mannings, idx>>

\* pool.map(get_data, url_list): a worker fetches one url not yet fetched;
\* the result takes the url's place in the result list
VectorFetch ==
    /\ pc = "fetch"
    /\ \E k \in 1..Len(results), reads \in Reads :
          /\ results[k] = "pending"
          /\ results' = [results EXCEPT ![k] = IF GetDataOk(reads) THEN "ok" ELSE "fail"]
          /\ requests' = Append(requests, Request(k, "main", GetDataOk(reads)))
    /\ UNCHANGED NotPipe
    /\ UNCHANGED <<pipeline, area, csv, num_cores, files, written, pc, outcome,
                   aoi_read, tiler_calls, tile_extents, gdf_ssurgo,
                   failed_url_list, rerun_results, failed_img, tile_paths,
                   tile_paths_mannings, idx>>

\* pool.map has returned: split the results into datasets and failed urls
VectorCollect ==
    /\ pc = "fetch"
    /\ \A k \in 1..Len(results) : results[k] # "pending"
    /\ gdf_ssurgo' = [j \in 1..Len(OkTiles(results)) |-> Piece(OkTiles(results)[j], "main")]
    /\ failed_url_list' = FailedTiles(results)
    /\ pc' = IF FailedTiles(results) # << >> THEN "retry" ELSE "finish"
    /\ idx' = 0
    /\ UNCHANGED NotPipe
    /\ UNCHANGED <<pipeline, area, csv, num_cores, files, written, outcome,
                   aoi_read, tiler_calls, tile_extents, requests, results,
                   rerun_results, failed_img, tile_paths, tile_paths_mannings>>

\* get_failed_data: the next failed url is fetched again; after the last one
\* the retrieved datasets are appended to gdf_ssurgo
VectorRetry ==
    /\ pc = "retry"
    /\ pipeline = "vector"
    /\ idx < Len(failed_url_list)
    /\ \E reads \in Reads :
          LET k == failed_url_list[idx + 1]
              rerun == IF GetDataOk(reads)
                          THEN Append(rerun_results, Piece(k, "retry"))
                          ELSE rerun_results
              last == idx + 1 = Len(failed_url_list)
          IN  /\ requests' = Append(requests, Request(k, "retry", GetDataOk(reads)))
              /\ rerun_results' = rerun
              /\ idx' = idx + 1
              /\ gdf_ssurgo' = IF last THEN gdf_ssurgo \o rerun ELSE gdf_ssurgo
              /\ pc' = IF last THEN "finish" ELSE "retry"
    /\ UNCHANGED NotPipe
    /\ UNCHANGED <<pipeline, area, csv, num_cores, files, written, outcome,
                   aoi_read, tiler_calls, tile_extents, results,
                   failed_url_list, failed_img, tile_paths, tile_paths_mannings>>

\* raise when nothing was retrieved; otherwise concatenate, drop duplicates,
\* clip to the AOI and write ssurgo_data.gpkg
VectorFinish ==
    /\ pc = "finish"
    /\ IF gdf_ssurgo = << >>
          THEN Raise /\ UNCHANGED <<files, written>>
          ELSE /\ files' = Put(files, SsurgoData, gdf_ssurgo)
               /\ written' = written \cup {SsurgoData}
               /\ outcome' = "ok"
               /\ pc' = "done"
    /\ UNCHANGED NotPipe
    /\ UNCHANGED <<pipeline, area, csv, num_cores, aoi_read, tiler_calls,
                   tile_extents, requests, results, gdf_ssurgo, failed_url_list,
                   rerun_results, failed_img, tile_paths, tile_paths_mannings, idx>>

\* ---- get_nlcd_and_convert ----

\* get_img: gdal.Open answers with a dataset, which CreateCopy writes to fname,
\* or with None, and then nothing is written
GetImg(fs, fname, opened, data) == IF opened THEN Put(fs, fname, data) ELSE fs

\* convert_to_mannings reads image_path (rasterio.open raises when the file
\* does not exist) and writes the converted grid to out_img_mannings
ConvertRaises(fs, image_path) == ~Exists(fs, image_path)
Convert(fs, image_path, out_img_mannings) == Put(fs, out_img_mannings, fs[image_path])

\* validate the CSV, read the AOI, compute the area and choose the branch
RasterBegin ==
    /\ pc = "start"
    /\ pipeline = "raster"
    /\ IF csv.given /\ FieldsMissing(csv.fieldnames) # {}
          THEN /\ Raise
               /\ UNCHANGED <<aoi_read, tiler_calls, tile_extents>>
          ELSE /\ aoi_read' = TRUE
               /\ outcome' = outcome
               /\ IF area <= AreaThreshold
                     THEN /\ pc' = "small"
                          /\ UNCHANGED <<tiler_calls, tile_extents>>
                     ELSE /\ pc' = "main"
                          /\ tiler_calls' = tiler_calls + 1
                          /\ \E n \in 1..MaxTiles : tile_extents' = TileList(n)
    /\ UNCHANGED NotPipe
    /\ UNCHANGED <<pipeline, area, csv, num_cores, files, written, requests,
                   results, gdf_ssurgo, failed_url_list, rerun_results,
                   failed_img, tile_paths, tile_paths_mannings, idx>>

\* area <= 9: one request for the whole extent, written to nlcd_clip.tif and
\* converted to mannings_n_clip.tif; the result of get_img is not looked at
RasterSmall ==
    /\ pc = "small"
    /\ \E opened \in BOOLEAN :
          LET fs1 == GetImg(files, NlcdClip, opened, <<Piece(0, "whole")>>)
              w1 == IF opened THEN written \cup {NlcdClip} ELSE written
          IN  /\ requests' = Append(requests, Request(0, "whole", opened))
              /\ IF ConvertRaises(fs1, NlcdClip)
                    THEN Raise /\ files' = fs1 /\ written' = w1
                    ELSE /\ files' = Convert(fs1, NlcdClip, ManningsClip)
                         /\ written' = w1 \cup {ManningsClip}
                         /\ pc' = "clip"
                         /\ outcome' = outcome
    /\ UNCHANGED NotPipe
    /\ UNCHANGED <<pipeline, area, csv, num_cores, aoi_read, tiler_calls,
                   tile_extents, results, gdf_ssurgo, failed_url_list,
                   rerun_results, failed_img, tile_paths, tile_paths_mannings, idx>>

\* one iteration of the main loop over tile_extents; after the last tile the
\* retry pass follows when failed_img is not empty, the mosaic otherwise
RasterMain ==
    /\ pc = "main"
    /\ idx < Len(tile_extents)
    /\ \E opened \in BOOLEAN :
          LET k == tile_extents[idx + 1]
              out_img == NlcdTile(k)
              out_img_mannings == ManningsTile(k)
              fs1 == GetImg(files, out_img, opened, <<Piece(k, "main")>>)
              w1 == IF opened THEN written \cup {out_img} ELSE written
              failed == IF opened THEN failed_img ELSE Append(failed_img, k)
          IN  /\ requests' = Append(requests, Request(k, "main", opened))
              /\ IF ConvertRaises(fs1, out_img)
                    THEN /\ Raise /\ files' = fs1 /\ written' = w1
                         /\ UNCHANGED <<failed_img, tile_paths, tile_paths_mannings, idx>>
                    ELSE /\ files' = Convert(fs1, out_img, out_img_mannings)
                         /\ written' = w1 \cup {out_img_mannings}
                         /\ failed_img' = failed
                         /\ tile_paths' =
                               IF opened THEN Append(tile_paths, out_img) ELSE tile_paths
                         /\ tile_paths_mannings' =
                               IF opened THEN Append(tile_paths_mannings, out_img_mannings)
                               ELSE tile_paths_mannings
                         /\ outcome' = outcome
                         /\ IF idx + 1 < Len(tile_extents)
                               THEN pc' = "main" /\ idx' = idx + 1
                               ELSE /\ pc' = IF Len(failed) > 0 THEN "retry" ELSE "mosaic"
                                    /\ idx' = 0
    /\ UNCHANGED NotPipe
    /\ UNCHANGED <<pipeline, area, csv, num_cores, aoi_read, tiler_calls,
                   tile_extents, results, gdf_ssurgo, failed_url_list, rerun_results>>

\* one iteration of the retry loop over failed_img
RasterRetry ==
    /\ pc = "retry"
    /\ pipeline = "raster"
    /\ idx < Len(failed_img)
    /\ \E opened \in BOOLEAN :
          LET k == failed_img[idx + 1]
              out_img == NlcdRetryTile(k)
              out_img_mannings == ManningsRetryTile(k)
              fs1 == GetImg(files, out_img, opened, <<Piece(k, "retry")>>)
              w1 == IF opened THEN written \cup {out_img} ELSE written
          IN  /\ requests' = Append(requests, Request(k, "retry", opened))
              /\ IF ConvertRaises(fs1, out_img)
                    THEN /\ Raise /\ files' = fs1 /\ written' = w1
                         /\ UNCHANGED <<tile_paths, tile_paths_mannings, idx>>
                    ELSE /\ files' = Convert(fs1, out_img, out_img_mannings)
                         /\ written' = w1 \cup {out_img_mannings}
                         /\ tile_paths' =
                               IF opened THEN Append(tile_paths, out_img) ELSE tile_paths
                         /\ tile_paths_mannings' =
                               IF opened THEN Append(tile_paths_mannings, out_img_mannings)
                               ELSE tile_paths_mannings
                         /\ outcome' = outcome
                         /\ idx' = idx + 1
                         /\ pc' = IF idx + 1 < Len(failed_img) THEN "retry" ELSE "mosaic"
    /\ UNCHANGED NotPipe
    /\ UNCHANGED <<pipeline, area, csv, num_cores, aoi_read, tiler_calls,
                   tile_extents, results, gdf_ssurgo, failed_url_list,
                   rerun_results, failed_img>>

\* build_mosaic: gdal.Warp(output_mosaic, input_imgs).  With no input there
\* is nothing to warp and no output is produced (GDAL errors do not raise:
\* gdal.DontUseExceptions()); an output file that exists already is updated
\* in place, the inputs written over what it holds.
BuildMosaic(fs, input_imgs, output_mosaic) ==
    IF input_imgs = << >> THEN fs
    ELSE Put(fs, output_mosaic,
             (IF Exists(fs, output_mosaic) THEN fs[output_mosaic] ELSE << >>)
                 \o Flatten([j \in 1..Len(input_imgs) |-> fs[input_imgs[j]]]))

\* mosaic both tile lists, then remove the tile files
RasterMosaic ==
    /\ pc = "mosaic"
    /\ LET fs1 == BuildMosaic(files, tile_paths, NlcdClip)
           fs2 == BuildMosaic(fs1, tile_paths_mannings, ManningsClip)
           gone == {tile_paths[j] : j \in 1..Len(tile_paths)}
                      \cup {tile_paths_mannings[j] : j \in 1..Len(tile_paths_mannings)}
       IN  /\ files' = Remove(fs2, gone)
           /\ written' = IF tile_paths = << >> THEN written
                         ELSE written \cup {NlcdClip, ManningsClip}
    /\ pc' = "clip"
    /\ UNCHANGED NotPipe
    /\ UNCHANGED <<pipeline, area, csv, num_cores, outcome, aoi_read,
                   tiler_calls, tile_extents, requests, results, gdf_ssurgo,
                   failed_url_list, rerun_results, failed_img, tile_paths,
                   tile_paths_mannings, idx>>

\* clip_image(nlcd_clip.tif) then clip_image(mannings_n_clip.tif): each opens
\* the file (rasterio.open raises when it does not exist), masks it with the
\* AOI and writes the result over it
RasterClip ==
    /\ pc = "clip"
    /\ IF ~Exists(files, NlcdClip)
          THEN Raise /\ UNCHANGED written
          ELSE IF ~Exists(files, ManningsClip)
          THEN Raise /\ written' = written \cup {NlcdClip}
          ELSE /\ written' = written \cup {NlcdClip, ManningsClip}
               /\ outcome' = "ok"
               /\ pc' = "done"
    /\ UNCHANGED NotPipe
    /\ UNCHANGED <<pipeline, area, csv, num_cores, files, aoi_read,
                   tiler_calls, tile_extents, requests, results, gdf_ssurgo,
                   failed_url_list, rerun_results, failed_img, tile_paths,
                   tile_paths_mannings, idx>>

NextPipe ==
    \/ VectorBegin
    \/ VectorPool
    \/ VectorFetch
    \/ VectorCollect
    \/ VectorRetry
    \/ VectorFinish
    \/ RasterBegin
    \/ RasterSmall
    \/ RasterMain
    \/ RasterRetry
    \/ RasterMosaic
    \/ RasterClip


(***************************************************************************)
(* generate_soils_classes: acquire_ssurgo_data, then get_soils_hydro_group *)
(* on the file it returned.  A hydrologic group label is a sequence of     *)
(* characters; None is the empty sequence.                                 *)
(***************************************************************************)

None == << >>

\* ord(c) for the characters of the labels
Ord(c) ==
    CASE c = "-" -> 45
      [] c = "/" -> 47
      [] c = "A" -> 65
      [] c = "B" -> 66
      [] c = "C" -> 67
      [] c = "D" -> 68

\* s < t for Python strings
RECURSIVE StrLess(_, _)
StrLess(s, t) ==
    IF t = << >> THEN FALSE
    ELSE IF s = << >> THEN TRUE
    ELSE IF Ord(Head(s)) # Ord(Head(t)) THEN Ord(Head(s)) < Ord(Head(t))
    ELSE StrLess(Tail(s), Tail(t))

ReplaceSlash_Keep(s) == s

\* str.replace("/", "-")
RECURSIVE ReplaceSlash(_)
ReplaceSlash(s) ==
    IF s = << >> THEN << >>
    ELSE <<IF Head(s) = "/" THEN "-" ELSE Head(s)>> \o ReplaceSlash(Tail(s))

\* ---- the inputs ----

MaxRows == 3

\* the polygons of ssurgo_data.gpkg, each with its mukey
SoilsInputs == { <<1>>, <<1, 2>>, <<1, 2, 2>>, <<3, 1, 2>> }

\* the labels the tabular service answers with; None for a component
\* without a hydrologic group
Labels == { <<"A">>, <<"A", "/", "D">>, <<"B">>, None }
Percents == {15, 30}

MukeysOf(soils) == {soils[q] : q \in 1..Len(soils)}

\* the component tables the service can answer with for the mukeys asked
Tables(mukeys) ==
    UNION { [1..n -> (mukeys \X Percents \X Labels)] : n \in 0..MaxRows }

\* ---- the classification ----

\* df.groupby(["hydgrp", "mukey"])["comppct_r"].sum(): rows whose hydgrp is
\* None belong to no group
GroupKeys(t) == { <<t[j][3], t[j][1]>> : j \in {i \in 1..Len(t) : t[i][3] # None} }

RECURSIVE SumPct(_, _, _)
SumPct(t, g, m) ==
    IF t = << >> THEN 0
    ELSE (IF Head(t)[3] = g /\ Head(t)[1] = m THEN Head(t)[2] ELSE 0)
             + SumPct(Tail(t), g, m)

\* the order of the group keys: by hydgrp, then by mukey
KeyLess(a, b) == StrLess(a[1], b[1]) \/ (a[1] = b[1] /\ a[2] < b[2])

RECURSIVE SortKeys(_)
SortKeys(K) ==
    IF K = {} THEN << >>
    ELSE LET k == CHOOSE k \in K : \A o \in K \ {k} : KeyLess(k, o)
         IN  <<k>> \o SortKeys(K \ {k})

GroupedData(t) ==
    LET keys == SortKeys(GroupKeys(t))
    IN  [j \in 1..Len(keys) |->
            [hydgrp |-> keys[j][1], mukey |-> keys[j][2],
             pct |-> SumPct(t, keys[j][1], keys[j][2])]]

IdxMax_Last(gd, m) ==
    CHOOSE i \in 1..Len(gd) :
        /\ gd[i].mukey = m
        /\ \A j \in 1..Len(gd) :
              gd[j].mukey = m =>
                  (gd[j].pct < gd[i].pct \/ (gd[j].pct = gd[i].pct /\ j <= i))

\* grouped_data.groupby("mukey")["pct"].idxmax(): for mukey m, the index of
\* the first row that holds the largest pct
IdxMax(gd, m) ==
    CHOOSE i \in 1..Len(gd) :
        /\ gd[i].mukey = m
        /\ \A j \in 1..Len(gd) :
              gd[j].mukey = m =>
                  (gd[j].pct < gd[i].pct \/ (gd[j].pct = gd[i].pct /\ i <= j))

RECURSIVE SortInts(_)
SortInts(S) ==
    IF S = {} THEN << >>
    ELSE LET m == CHOOSE m \in S : \A o \in S : m <= o
         IN  <<m>> \o SortInts(S \ {m})

\* grouped_data.loc[...idxmax()].reset_index(drop=True): one row per mukey
HydrogroupData(gd) ==
    LET ms == SortInts({gd[j].mukey : j \in 1..Len(gd)})
    IN  [j \in 1..Len(ms) |-> gd[IdxMax(gd, ms[j])]]

\* the outer merge on mukey: the hydgrp of a polygon, None when
\* hydrogroup_data has no row for its mukey
MergedGroup(hd, soils, q) ==
    IF \E j \in 1..Len(hd) : hd[j].mukey = soils[q]
        THEN (CHOOSE r \in {hd[j] : j \in 1..Len(hd)} : r.mukey = soils[q]).hydgrp
        ELSE None

RECURSIVE SortLabels(_)
SortLabels(S) ==
    IF S = {} THEN << >>
    ELSE LET g == CHOOSE g \in S : \A o \in S \ {g} : StrLess(g, o)
         IN  <<g>> \o SortLabels(S \ {g})

\* dissolve(by="hydgrp") (polygons without a group belong to no row), drop
\* the rows whose Soil_Class is null, replace "/" by "-", keep two columns
SoilClasses(hd, soils) ==
    LET groups == SortLabels({MergedGroup(hd, soils, q) : q \in 1..Len(soils)} \ {None})
    IN  [j \in 1..Len(groups) |->
            [Soil_Class |-> ReplaceSlash(groups[j]),
             geometry |-> {q \in 1..Len(soils) : MergedGroup(hd, soils, q) = groups[j]}]]

\* ---- the run ----

HydroIdle ==
    /\ soils_gdf = << >>
    /\ status_code = 0
    /\ table = << >>
    /\ grouped_data = << >>
    /\ hydrogroup_data = << >>
    /\ soil_classes = << >>
    /\ hfiles = {}
    /\ hpc = "idle"
    /\ houtcome = "running"

\* generate_soils_classes is called
InitHydro ==
    /\ soils_gdf = << >>
    /\ status_code = 0
    /\ table = << >>
    /\ grouped_data = << >>
    /\ hydrogroup_data = << >>
    /\ soil_classes = << >>
    /\ hfiles = {}
    /\ hpc = "acquire"
    /\ houtcome = "running"

\* acquire_ssurgo_data raises, and so does generate_soils_classes
AcquireRaises ==
    /\ hpc = "acquire"
    /\ houtcome' = "raised"
    /\ hpc' = "done"
    /\ UNCHANGED NotHydro
    /\ UNCHANGED <<soils_gdf, status_code, table, grouped_data,
                   hydrogroup_data, soil_classes, hfiles>>

\* acquire_ssurgo_data returns the path of ssurgo_data.gpkg
AcquireReturns ==
    /\ hpc = "acquire"
    /\ soils_gdf' \in SoilsInputs
    /\ hfiles' = {"ssurgo_data.gpkg"}
    /\ hpc' = "request"
    /\ UNCHANGED NotHydro
    /\ UNCHANGED <<status_code, table, grouped_data, hydrogroup_data,
                   soil_classes, houtcome>>

\* requests.post: the service answers 200 with a table for the mukeys asked,
\* or with another status
HydroRequest ==
    /\ hpc = "request"
    /\ \/ /\ status_code' = 200
          /\ table' \in Tables(MukeysOf(soils_gdf))
          /\ hpc' = "classify"
          /\ UNCHANGED houtcome
       \/ /\ status_code' \in {404, 500}
          /\ table' = << >>
          \* else: print("Error:", ...) and the function ends
          /\ hpc' = "done"
          /\ houtcome' = "returned"
    /\ UNCHANGED NotHydro
    /\ UNCHANGED <<soils_gdf, grouped_data, hydrogroup_data, soil_classes, hfiles>>

\* status 200: build the frame (setting three column names on a frame without
\* rows raises), classify, join, dissolve and write the three files
HydroClassify ==
    /\ hpc = "classify"
    /\ IF table = << >>
          THEN /\ houtcome' = "raised"
               /\ UNCHANGED <<grouped_data, hydrogroup_data, soil_classes, hfiles>>
          ELSE /\ grouped_data' = GroupedData(table)
               /\ hydrogroup_data' = HydrogroupData(GroupedData(table))
               /\ soil_classes' =
                     SoilClasses(HydrogroupData(GroupedData(table)), soils_gdf)
               /\ hfiles' = hfiles \cup {"component_source_data.csv",
                                         "hydrogroup_data.csv",
                                         "ssurgo_soil_classes.gpkg"}
               /\ houtcome' = "returned"
    /\ hpc' = "done"
    /\ UNCHANGED NotHydro
    /\ UNCHANGED <<soils_gdf, status_code, table>>

NextHydro == AcquireRaises \/ AcquireReturns \/ HydroRequest \/ HydroClassify

(***************************************************************************)
(* convert_to_mannings.  A Manning's n is written in units of 1e-5.  An    *)
(* array element is a record: kind "float64" or "float32" with its value   *)
(* v, kind "None" for the None that dict.get returns, kind "nan" for NaN.  *)
(* The lookup column mannings_n is a float column, as in the default       *)
(* table.                                                                  *)
(***************************************************************************)

\* the rows <<value, mannings_n>> of the default table
mock_csv_file ==
    << <<11, 3000>>, <<12, 9999>>, <<21, 4500>>, <<22, 7500>>, <<23, 8100>>,
       <<24, 13700>>, <<31, 3000>>, <<41, 11400>>, <<42, 13000>>,
       <<43, 12100>>, <<51, 9999>>, <<52, 4000>>, <<71, 3500>>, <<72, 9999>>,
       <<73, 9999>>, <<74, 9999>>, <<81, 4000>>, <<82, 4000>>, <<90, 8000>>,
       <<95, 7900>> >>

\* pd.Series(df.mannings_n.values, index=df.value).to_dict(): of two rows
\* with one value the later one stays
ToDict(rows) ==
    [k \in {rows[j][1] : j \in 1..Len(rows)} |->
        LET last == CHOOSE j \in 1..Len(rows) :
                        /\ rows[j][1] = k
                        /\ \A i \in 1..Len(rows) : rows[i][1] = k => i <= j
        IN  rows[last][2]]

Get_ZeroDefault(d, k) ==
    IF k \in DOMAIN d THEN [kind |-> "float64", v |-> d[k]]
                      ELSE [kind |-> "float64", v |-> 0]

\* value_to_manningsn.get(k)
Get(d, k) ==
    IF k \in DOMAIN d THEN [kind |-> "float64", v |-> d[k]]
                      ELSE [kind |-> "None", v |-> 0]

\* the cast of one element to float32: None becomes NaN, a number the
\* float32 of that number
AsFloat32(x) ==
    IF x.kind \in {"None", "nan"} THEN [kind |-> "nan", v |-> 0]
                                  ELSE [kind |-> "float32", v |-> x.v]

\* np.vectorize(f)(a): f on every element, the shape kept
Vectorize(d, a) ==
    [r \in 1..Len(a) |-> [c \in 1..Len(a[r]) |-> Get(d, a[r][c])]]

AsType32(a) ==
    [r \in 1..Len(a) |-> [c \in 1..Len(a[r]) |-> AsFloat32(a[r][c])]]

Shape(a) == <<Len(a), Len(a[1])>>

\* ---- the inputs ----

MaxHeight == 2
MaxWidth == 2

\* land-cover codes of the input raster; 0 is not in the default table
Codes == {0, 11, 24}

Images ==
    UNION { [1..h -> [1..w -> Codes]] : h \in 1..MaxHeight, w \in 1..MaxWidth }

\* the user's tables: one code; one code twice; every code of the raster
UserTables ==
    { << <<11, 5000>> >>,
      << <<24, 100>>, <<11, 200>>, <<24, 300>> >>,
      << <<11, 3000>>, <<24, 13700>>, <<0, 1>> >> }

\* nlcd_classifications_path=None
NoPath == << >>

MIdle ==
    /\ nlcd_classifications_path = << >>
    /\ image = << >>
    /\ df = << >>
    /\ raster_data = << >>
    /\ manningsn_data = << >>
    /\ dst = << >>
    /\ mpc = "idle"

\* convert_to_mannings is called on an existing raster
InitMannings ==
    /\ nlcd_classifications_path \in {NoPath} \cup UserTables
    /\ image \in Images
    /\ df = << >>
    /\ raster_data = << >>
    /\ manningsn_data = << >>
    /\ dst = << >>
    /\ mpc = "load"

\* pd.read_csv of the default table or of the user's file
LoadCsv ==
    /\ mpc = "load"
    /\ df' = IF nlcd_classifications_path = NoPath
                THEN mock_csv_file
                ELSE nlcd_classifications_path
    /\ mpc' = "read"
    /\ UNCHANGED NotMannings
    /\ UNCHANGED <<nlcd_classifications_path, image, raster_data,
                   manningsn_data, dst>>

\* raster_data = src.read(1)
ReadRaster ==
    /\ mpc = "read"
    /\ raster_data' = image
    /\ mpc' = "apply"
    /\ UNCHANGED NotMannings
    /\ UNCHANGED <<nlcd_classifications_path, image, df, manningsn_data, dst>>

\* the dictionary, the vectorised get and the cast to float32
ApplyLookup ==
    /\ mpc = "apply"
    /\ manningsn_data' = AsType32(Vectorize(ToDict(df), raster_data))
    /\ mpc' = "write"
    /\ UNCHANGED NotMannings
    /\ UNCHANGED <<nlcd_classifications_path, image, df, raster_data, dst>>

\* the GeoTIFF written with the shape and the dtype of manningsn_data
WriteMannings ==
    /\ mpc = "write"
    /\ dst' = [height |-> Shape(manningsn_data)[1],
               width |-> Shape(manningsn_data)[2],
               dtype |-> "float32",
               band |-> manningsn_data]
    /\ mpc' = "done"
    /\ UNCHANGED NotMannings
    /\ UNCHANGED <<nlcd_classifications_path, image, df, raster_data,
                   manningsn_data>>

NextMannings == LoadCsv \/ ReadRaster \/ ApplyLookup \/ WriteMannings

(***************************************************************************)
(* The clip to the AOI: gpd.clip of the merged soil features in            *)
(* acquire_ssurgo_data, clip_image of the two rasters in                   *)
(* get_nlcd_and_convert.  The plane is a grid of cells; a geometry is the  *)
(* set of cells it covers, the AOI the set of cells whose centre it holds; *)
(* a reprojection changes the CRS of a frame and leaves the cells.         *)
(***************************************************************************)

GridW == 2
GridH == 2

Rect(x1, x2, y1, y2) == {<<x, y>> : x \in x1..x2, y \in y1..y2}

World == Rect(1, GridW, 1, GridH)

\* the bounding rectangle of a nonempty set of cells
BBox(S) ==
    LET xs == {c[1] : c \in S}
        ys == {c[2] : c \in S}
        lo(V) == CHOOSE v \in V : \A o \in V : v <= o
        hi(V) == CHOOSE v \in V : \A o \in V : o <= v
    IN  Rect(lo(xs), hi(xs), lo(ys), hi(ys))

\* ---- the inputs ----

AOIs == (SUBSET World) \ {{}}

\* the merged soil features: one polygon over everything, one per column,
\* one per cell
MergedInputs ==
    { {[mukey |-> 1, geometry |-> World]},
      {[mukey |-> x, geometry |-> Rect(x, x, 1, GridH)] : x \in 1..GridW},
      {[mukey |-> c[1] + GridW * c[2], geometry |-> {c}] : c \in World} }

\* the extent a mosaic covers
Windows ==
    {Rect(x1, x2, y1, y2) : x1 \in 1..GridW, x2 \in 1..GridW,
                            y1 \in 1..GridH, y2 \in 1..GridH} \ {{}}

\* the band of a mosaic: one value everywhere, or two values in a checker
Bands(w, a, b) ==
    { [c \in w |-> a], [c \in w |-> IF (c[1] + c[2]) % 2 = 0 THEN a ELSE b] }

\* nodata of a raster: None, or the declared value
Nodatas == { << >>, <<250>> }

\* ---- the clip ----

\* gpd.clip(frame, mask): the part of every feature inside the mask; a
\* feature without such a part is left out
Clip(features, mask) ==
    { [mukey |-> f.mukey, geometry |-> f.geometry \cap mask] :
          f \in {g \in features : g.geometry \cap mask # {}} }

\* the value rasterio.mask.mask writes outside the shapes: the nodata of the
\* source, 0 when it has none
Fill(src) == IF src.nodata = << >> THEN 0 ELSE src.nodata[1]

\* the window of mask(src, shapes, crop=True)
CropWindow(src, shapes) == BBox(shapes) \cap src.window

Mask_CropOnly(src, shapes) ==
    [nodata |-> src.nodata,
     window |-> CropWindow(src, shapes),
     band |-> [c \in CropWindow(src, shapes) |-> src.band[c]]]

\* out_image and the updated metadata: a pixel whose centre is in a shape
\* keeps its value, every other pixel of the window gets the fill value
Mask(src, shapes) ==
    [nodata |-> src.nodata,
     window |-> CropWindow(src, shapes),
     band |-> [c \in CropWindow(src, shapes) |->
                  IF c \in shapes THEN src.band[c] ELSE Fill(src)]]

NoRaster == [nodata |-> << >>, window |-> {}, band |-> << >>]
NoFrame == [crs |-> 0, cells |-> {}]
NoFeatures == [crs |-> 0, features |-> {}]

ClipIdle ==
    /\ clip_gdf = NoFrame
    /\ original_crs = 0
    /\ merged_gdf = NoFeatures
    /\ ssurgo_gpkg = NoFeatures
    /\ rasters = [f \in {"nlcd_clip.tif", "mannings_n_clip.tif"} |-> NoRaster]
    /\ clipped = {}
    /\ clip_inputs = [gdf |-> clip_gdf, merged_gdf |-> merged_gdf, rasters |-> rasters]
    /\ cpc = "idle"
    /\ coutcome = "running"

\* acquire_ssurgo_data has merged its tiles (both frames in EPSG:4326), or
\* get_nlcd_and_convert has its two rasters (the AOI in EPSG:5070)
InitClip ==
    /\ ssurgo_gpkg = NoFeatures
    /\ clipped = {}
    /\ coutcome = "running"
    /\ \/ /\ cpc = "reproject"
          /\ original_crs \in {4326, 26915}
          /\ clip_gdf \in [crs : {4326}, cells : AOIs]
          /\ merged_gdf \in [crs : {4326}, features : MergedInputs]
          /\ rasters = [f \in {"nlcd_clip.tif", "mannings_n_clip.tif"} |-> NoRaster]
       \/ /\ cpc = "nlcd"
          /\ original_crs = 0
          /\ clip_gdf \in [crs : {5070}, cells : AOIs]
          /\ merged_gdf = NoFeatures
          /\ \E w \in Windows, nd \in Nodatas :
                \E n \in Bands(w, 11, 0), m \in Bands(w, 3000, 13700) :
                    rasters = [f \in {"nlcd_clip.tif", "mannings_n_clip.tif"} |->
                                  IF f = "nlcd_clip.tif"
                                      THEN [nodata |-> nd, window |-> w, band |-> n]
                                      ELSE [nodata |-> << >>, window |-> w, band |-> m]]
    /\ clip_inputs = [gdf |-> clip_gdf, merged_gdf |-> merged_gdf, rasters |-> rasters]

\* merged_gdf.to_crs(original_crs, inplace=True); gdf.to_crs(..., inplace=True)
Reproject ==
    /\ cpc = "reproject"
    /\ merged_gdf' = [merged_gdf EXCEPT !.crs = original_crs]
    /\ clip_gdf' = [clip_gdf EXCEPT !.crs = original_crs]
    /\ cpc' = "clip"
    /\ UNCHANGED NotClip
    /\ UNCHANGED <<original_crs, ssurgo_gpkg, rasters, clipped, clip_inputs, coutcome>>

\* soils_gdf = gpd.clip(merged_gdf, gdf); soils_gdf.to_crs(4326, inplace=True)
\* and soils_gdf.to_file(output_ssurgo)
ClipExport ==
    /\ cpc = "clip"
    /\ ssurgo_gpkg' = [crs |-> 4326,
                       features |-> Clip(merged_gdf.features, clip_gdf.cells)]
    /\ cpc' = "done"
    /\ coutcome' = "ok"
    /\ UNCHANGED NotClip
    /\ UNCHANGED <<clip_gdf, original_crs, merged_gdf, rasters, clipped, clip_inputs>>

\* clip_image(path, path, gdf): mask raises when the shapes do not overlap
\* the raster; otherwise the masked window is written over the file
ClipImage(path, next) ==
    /\ IF CropWindow(rasters[path], clip_gdf.cells) = {}
          THEN /\ coutcome' = "error"
               /\ cpc' = "done"
               /\ UNCHANGED <<rasters, clipped>>
          ELSE /\ rasters' = [rasters EXCEPT
                                 ![path] = Mask(rasters[path], clip_gdf.cells)]
               /\ clipped' = clipped \cup {path}
               /\ cpc' = next
               /\ coutcome' = IF next = "done" THEN "ok" ELSE coutcome
    /\ UNCHANGED NotClip
    /\ UNCHANGED <<clip_gdf, original_crs, merged_gdf, ssurgo_gpkg, clip_inputs>>

ClipNlcd == cpc = "nlcd" /\ ClipImage("nlcd_clip.tif", "mannings")

ClipMannings == cpc = "mannings" /\ ClipImage("mannings_n_clip.tif", "done")

NextClip == Reproject \/ ClipExport \/ ClipNlcd \/ ClipMannings

(***************************************************************************)
(* The requests built from the tile list: the loop of acquire_ssurgo_data  *)
(* that fills url_list, and the main loop of get_nlcd_and_convert, which   *)
(* builds the url of a tile right before it fetches it.  A url is the      *)
(* record of its query parameters, each a tuple of the numbers in the      *)
(* order they are written.                                                 *)
(***************************************************************************)

\* create_url: ...&BBOX={min_x},{min_y},{max_x},{max_y}&...
create_url(mn_x, mn_y, mx_x, mx_y) ==
    [service |-> "WFS", BBOX |-> <<mn_x, mn_y, mx_x, mx_y>>]

\* get_url: min_x, max_x, min_y, max_y = extent;
\* ...&subset=Y({min_y},{max_y})&subset=X({min_x},{max_x})&...
get_url(ext) ==
    [service |-> "WCS", Y |-> <<ext[3], ext[4]>>, X |-> <<ext[1], ext[2]>>]

WfsUrl_InTupleOrder(ext) == create_url(ext[1], ext[2], ext[3], ext[4])

\* min_x, max_x, min_y, max_y = ext; create_url(min_x, min_y, max_x, max_y)
WfsUrl(ext) == create_url(ext[1], ext[3], ext[2], ext[4])

\* ---- the inputs ----

MaxUrlTiles == 2

\* extents (min_x, max_x, min_y, max_y) whose four numbers tell the axes apart
UrlExtents ==
    { <<x1, x2, y1, y2>> : x1 \in 0..1, x2 \in 2..3, y1 \in 5..6, y2 \in 7..8 }

UrlTileLists == UNION { [1..n -> UrlExtents] : n \in 0..MaxUrlTiles }

UrlIdle ==
    /\ u_pipeline = "idle"
    /\ u_tile_extents = << >>
    /\ url_list = << >>
    /\ u_i = 0
    /\ upc = "idle"

\* split_extent has returned tile_extents
InitUrl ==
    /\ u_pipeline \in {"vector", "raster"}
    /\ u_tile_extents \in UrlTileLists
    /\ url_list = << >>
    /\ u_i = 0
    /\ upc = "loop"

\* acquire_ssurgo_data: one iteration of "for i, ext in enumerate(tile_extents)"
UrlVector ==
    /\ upc = "loop"
    /\ u_pipeline = "vector"
    /\ u_i < Len(u_tile_extents)
    /\ url_list' = Append(url_list, WfsUrl(u_tile_extents[u_i + 1]))
    /\ u_i' = u_i + 1
    /\ UNCHANGED NotUrl
    /\ UNCHANGED <<u_pipeline, u_tile_extents, upc>>

\* get_nlcd_and_convert: one iteration of the main loop: the url of the tile
\* is built and requested; the iteration ends, or convert_to_mannings raises
\* and ends the run
UrlRaster ==
    /\ upc = "loop"
    /\ u_pipeline = "raster"
    /\ u_i < Len(u_tile_extents)
    /\ url_list' = Append(url_list, get_url(u_tile_extents[u_i + 1]))
    /\ \/ u_i' = u_i + 1 /\ upc' = upc
       \/ u_i' = u_i /\ upc' = "aborted"
    /\ UNCHANGED NotUrl
    /\ UNCHANGED <<u_pipeline, u_tile_extents>>

\* the loop has gone through tile_extents
UrlLoopEnd ==
    /\ upc = "loop"
    /\ u_i = Len(u_tile_extents)
    /\ upc' = "done"
    /\ UNCHANGED NotUrl
    /\ UNCHANGED <<u_pipeline, u_tile_extents, url_list, u_i>>

NextUrl == UrlVector \/ UrlRaster \/ UrlLoopEnd

(***************************************************************************)
(* One call of get_data.  A url is a record, None the empty sequence; the  *)
(* dataset a read returned is named by what the read did.                  *)
(***************************************************************************)

GetIdle ==
    /\ wfs_url = None
    /\ attempts = << >>
    /\ failed_url = None
    /\ get_data_result = << >>
    /\ gpc = "idle"

\* get_data(wfs_url); failed_url = None
InitGet ==
    /\ wfs_url \in {WfsUrl(e) : e \in UrlExtents}
    /\ attempts = << >>
    /\ failed_url = None
    /\ get_data_result = << >>
    /\ gpc = "loop"

\* one iteration of "for attempt in range(3)": gpd.read_file raises (and the
\* loop continues), or binds the local gdf_ssurgo to what it read; the loop
\* goes on to the next attempt either way
GetDataAttempt ==
    /\ gpc = "loop"
    /\ Len(attempts) < 3
    /\ \E o \in ReadOutcomes : attempts' = Append(attempts, o)
    /\ gpc' = IF Len(attempts) + 1 = 3 THEN "return" ELSE "loop"
    /\ UNCHANGED NotGet
    /\ UNCHANGED <<wfs_url, failed_url, get_data_result>>

\* [gdf_ssurgo, failed_url] when the local is bound and not empty, otherwise
\* failed_url = wfs_url and [None, failed_url]
GetDataReturn ==
    /\ gpc = "return"
    /\ IF GetDataOk(attempts)
          THEN /\ get_data_result' = <<<<LastRead(attempts, 3)>>, failed_url>>
               /\ UNCHANGED failed_url
          ELSE /\ failed_url' = wfs_url
               /\ get_data_result' = <<None, wfs_url>>
    /\ gpc' = "done"
    /\ UNCHANGED NotGet
    /\ UNCHANGED <<wfs_url, attempts>>

NextGet == GetDataAttempt \/ GetDataReturn

vars == <<vars_tiler, vars_pipe, vars_hydro, vars_mannings, vars_clip, vars_url, vars_get>>

\* split_extent alone
TilerStart == InitTiler /\ PipeIdle /\ HydroIdle /\ MIdle /\ ClipIdle /\ UrlIdle /\ GetIdle
SpecTiler == TilerStart /\ [][NextTiler]_vars

\* one run of either pipeline
Init == InitPipe /\ TilerIdle /\ HydroIdle /\ MIdle /\ ClipIdle /\ UrlIdle /\ GetIdle
Next == NextPipe
Spec == Init /\ [][Next]_vars

\* one call of generate_soils_classes
HydroStart == InitHydro /\ TilerIdle /\ PipeIdle /\ MIdle /\ ClipIdle /\ UrlIdle /\ GetIdle
SpecHydro == HydroStart /\ [][NextHydro]_vars

\* one call of convert_to_mannings
ManningsStart == InitMannings /\ TilerIdle /\ PipeIdle /\ HydroIdle /\ ClipIdle /\ UrlIdle /\ GetIdle
SpecMannings == ManningsStart /\ [][NextMannings]_vars

\* the clip step of one run of either pipeline
ClipStart == InitClip /\ TilerIdle /\ PipeIdle /\ HydroIdle /\ MIdle /\ UrlIdle /\ GetIdle
SpecClip == ClipStart /\ [][NextClip]_vars

\* the requests of one run of either pipeline
UrlStart == InitUrl /\ TilerIdle /\ PipeIdle /\ HydroIdle /\ MIdle /\ ClipIdle /\ GetIdle
SpecUrl == UrlStart /\ [][NextUrl]_vars

\* one call of get_data
GetStart ==
    InitGet /\ TilerIdle /\ PipeIdle /\ HydroIdle /\ MIdle /\ ClipIdle /\ UrlIdle
SpecGetData == GetStart /\ [][NextGet]_vars

(***************************************************************************)
(* Claims about the pipelines, checked under Spec.                         *)
(***************************************************************************)

\* the requests of a pass for tile k that ended as given
Fetched(k, pass, ok) ==
    \E j \in 1..Len(requests) : requests[j] = Request(k, pass, ok)

\* the pieces the successful requests of this run retrieved
RetrievedPieces ==
    {Piece(requests[j].tile, requests[j].pass) :
        j \in {i \in 1..Len(requests) : requests[i].ok}}

PiecesOf(content) == {content[j] : j \in 1..Len(content)}

\* every tile failed in the main pass and again in the retry pass
AllTilesFailedTwice ==
    /\ tile_extents # << >>
    /\ \A j \in 1..Len(tile_extents) :
          /\ Fetched(tile_extents[j], "main", FALSE)
          /\ Fetched(tile_extents[j], "retry", FALSE)

\* C1: in both pipelines, when every tile fetch failed in the main pass and
\* again in the retry pass, the run ends with an error and writes none of
\* the final output files.
C1_RetryExhaustion ==
    (pc = "done" /\ AllTilesFailedTwice) =>
        /\ outcome = "error"
        /\ written \cap FinalFiles = {}

\* C2: in both pipelines, when some tile was fetched and some tile failed in
\* the main pass and again in the retry pass, the run completes without
\* raising and the merged output holds exactly the pieces that were fetched.
C2_PartialFailure ==
    ( /\ pc = "done"
      /\ \E j \in 1..Len(requests) : requests[j].ok
      /\ \E j \in 1..Len(tile_extents) :
            /\ Fetched(tile_extents[j], "main", FALSE)
            /\ Fetched(tile_extents[j], "retry", FALSE) ) =>
        /\ outcome = "ok"
        /\ pipeline = "vector" =>
              /\ Exists(files, SsurgoData)
              /\ PiecesOf(files[SsurgoData]) = RetrievedPieces
        /\ pipeline = "raster" =>
              /\ Exists(files, NlcdClip) /\ Exists(files, ManningsClip)
              /\ PiecesOf(files[NlcdClip]) = RetrievedPieces
              /\ PiecesOf(files[ManningsClip]) = RetrievedPieces

\* C5: in both pipelines, when the area is at most 9 the tiler is not
\* called and a run that completes has made exactly one request, for the
\* whole extent; the tiler is called only when the area exceeds 9.
C5_SmallAreaBypass ==
    /\ (area <= AreaThreshold /\ pc # "idle") => tiler_calls = 0
    /\ (area <= AreaThreshold /\ pc = "done" /\ outcome = "ok") =>
          (Len(requests) = 1 /\ requests[1].pass = "whole")
    /\ tiler_calls > 0 => area > AreaThreshold

\* C8: when the lookup CSV lacks one of value, nlcd_name, mannings_n,
\* get_nlcd_and_convert raises before the AOI is read and before any request
\* is issued.
C8_LookupValidation ==
    ( /\ pipeline = "raster"
      /\ csv.given
      /\ ~({"value", "nlcd_name", "mannings_n"} \subseteq csv.fieldnames)
      /\ pc # "start" ) =>
        /\ outcome = "error"
        /\ ~aoi_read
        /\ requests = << >>

\* a run given a CSV without the mannings_n column has ended
C8_Witness ==
    /\ pipeline = "raster"
    /\ csv.given
    /\ csv.fieldnames = {"value", "nlcd_name"}
    /\ pc = "done"
    /\ outcome = "error"

\* the places in the request log of the requests of one pass
PassIndexes(pass) == {j \in 1..Len(requests) : requests[j].pass = pass}

\* the retry pass has gone through the list of failed tiles
RetryOver ==
    /\ PassIndexes("retry") # {}
    /\ \/ pc \in {"finish", "mosaic", "clip"}
       \/ pc = "done" /\ (pipeline = "vector" \/ outcome = "ok")

\* C13: in both pipelines a retry request is made only after every tile has
\* been requested in the main pass; the retry requests are made one after the
\* other in the order of the failed tiles, each for a tile that failed in the
\* main pass and at most once; a retry pass that reaches its end has requested
\* every tile that failed in the main pass.
C13_RetryAfterMainPass ==
    /\ \A j \in PassIndexes("retry") :
          /\ \A t \in 1..Len(tile_extents) :
                \E i \in 1..(j - 1) :
                    requests[i].pass = "main" /\ requests[i].tile = tile_extents[t]
          /\ \A i \in PassIndexes("main") : i < j
          /\ \E i \in PassIndexes("main") :
                requests[i].tile = requests[j].tile /\ ~requests[i].ok
          /\ \A i \in PassIndexes("retry") :
                i < j => requests[i].tile < requests[j].tile
    /\ \A i, j \in PassIndexes("main") :
          requests[i].tile = requests[j].tile => i = j
    /\ RetryOver =>
          \A i \in PassIndexes("main") :
              ~requests[i].ok =>
                  \E j \in PassIndexes("retry") : requests[j].tile = requests[i].tile

\* a finished retry pass over two failed tiles, beside a tile that was
\* fetched in the main pass
C13_Witness ==
    /\ RetryOver
    /\ Cardinality(PassIndexes("retry")) = 2
    /\ \E i \in PassIndexes("main") : requests[i].ok

\* the tile indexes of a list of tile files increase along the list
InTileOrder(paths) ==
    \A i, j \in 1..Len(paths) : i < j => paths[i].tile < paths[j].tile

\* C15: the lists of tile rasters handed to build_mosaic are in the order the
\* tiles were enumerated (ascending tile index), whatever tiles failed in the
\* main pass and were fetched in the retry pass.
C15_MosaicOrder ==
    (pipeline = "raster" /\ pc \in {"mosaic", "clip", "done"}) =>
        InTileOrder(tile_paths) /\ InTileOrder(tile_paths_mannings)

\* C17: for every CPU count of 1 or more the vector pipeline creates a pool
\* of at least one worker, the main pass starts, and a run that has ended has
\* requested every tile.
C17_PoolHasWorker ==
    (pipeline = "vector" /\ pc \notin {"start", "pool"}) =>
        /\ PoolSize(num_cores) >= 1
        /\ pc = "done" =>
              \A t \in 1..Len(tile_extents) :
                  \E j \in PassIndexes("main") : requests[j].tile = tile_extents[t]

(***************************************************************************)
(* Claims about split_extent, checked under SpecTiler.                     *)
(***************************************************************************)

\* the candidate tiles in row-major order: index k is row (k-1) \div num_cols
Candidate(k) == Subextent((k - 1) \div num_cols, (k - 1) % num_cols)

\* how many iterations of the nested loops have run
Visited == IF row >= num_rows THEN num_rows * num_cols ELSE row * num_cols + col

KeepIntersecting(t) == IntersectsAny(gdf, t)

\* C3: the row and column counts are the ceilings of height and width over
\* the tile size, and the tile rectangles before the margin partition the
\* extent exactly: on each axis the first edge is the extent minimum and the
\* last edge (minimum + count * step) is the extent maximum.
C3_TilerExactness ==
    tpc = "done" =>
        /\ num_rows = Ceil(max_y - min_y, subextent_size)
        /\ num_cols = Ceil(max_x - min_x, subextent_size)
        /\ StepXNum(0) = min_x * num_cols
        /\ StepXNum(num_cols) = max_x * num_cols
        /\ EdgeY(0) = min_y
        /\ EdgeY(num_rows) = max_y

\* C4: a tile is emitted if and only if its margin-expanded rectangle
\* intersects the reference geometry, and the emitted tiles are in row-major
\* order: at every point of the loops the list is the row-major sequence of
\* the tiles visited so far, restricted to those that intersect.
C4_TilerPruning ==
    tpc # "idle" =>
        /\ subextents =
              SelectSeq([k \in 1..Visited |-> Candidate(k)], KeepIntersecting)
        /\ \A i \in 1..Len(subextents) : IntersectsAny(gdf, subextents[i])
        /\ \A k \in 1..Visited :
              IntersectsAny(gdf, Candidate(k)) =>
                  \E i \in 1..Len(subextents) : subextents[i] = Candidate(k)

\* a finished run in which some tile was pruned and several were emitted
C4_Witness ==
    /\ tpc = "done"
    /\ Len(subextents) >= 2
    /\ Len(subextents) < num_rows * num_cols

(***************************************************************************)
(* Claims about get_soils_hydro_group, checked under SpecHydro.            *)
(***************************************************************************)

TableMukeys == {table[j][1] : j \in 1..Len(table)}

\* the groups that occur with mukey m in the component table
GroupsOf(m) == {table[j][3] : j \in {i \in 1..Len(table) : table[i][1] = m}} \ {None}

AssignedRows(m) == {j \in 1..Len(hydrogroup_data) : hydrogroup_data[j].mukey = m}

\* every group assigned to m carries the largest summed percentage of m, and
\* sorts before every other group with that sum
ChosenIsMax(m) ==
    \A j \in AssignedRows(m) :
        LET g == hydrogroup_data[j].hydgrp
        IN  /\ g \in GroupsOf(m)
            /\ hydrogroup_data[j].pct = SumPct(table, g, m)
            /\ \A o \in GroupsOf(m) \ {g} :
                  \/ SumPct(table, o, m) < SumPct(table, g, m)
                  \/ /\ SumPct(table, o, m) = SumPct(table, g, m)
                     /\ StrLess(g, o)

Classified == hpc = "done" /\ status_code = 200 /\ houtcome = "returned"

\* C7: for every map-unit key in the component table exactly one hydrologic
\* group is assigned: the one with the largest summed percentage for that key,
\* and among groups that tie on the sum the one that sorts first.
C7_EveryKeyOneGroup ==
    Classified =>
        \A m \in TableMukeys :
            Cardinality(AssignedRows(m)) = 1 /\ ChosenIsMax(m)

\* C7, amended: the same for every map-unit key that has at least one
\* component row with a hydrologic group; a key whose component rows all lack
\* a group is assigned none.
C7_KeyWithGroupOneGroup ==
    Classified =>
        \A m \in TableMukeys :
            IF GroupsOf(m) # {}
                THEN Cardinality(AssignedRows(m)) = 1 /\ ChosenIsMax(m)
                ELSE AssignedRows(m) = {}

\* a classified table in which two groups of one key tie on the summed
\* percentage, one of them over two rows, beside a key without any group
C7_Witness ==
    /\ Classified
    /\ \E m \in TableMukeys :
          \E g, o \in GroupsOf(m) :
              /\ g # o
              /\ SumPct(table, g, m) = SumPct(table, o, m)
              /\ SumPct(table, g, m) = 30
    /\ \E m \in TableMukeys : GroupsOf(m) = {}

\* C10: when the tabular service answers with a non-success status,
\* get_soils_hydro_group, and so generate_soils_classes, ends with an error
\* and does not return normally.
C10_TabularFailureAborts ==
    (hpc = "done" /\ status_code \notin {0, 200}) => houtcome = "raised"

\* the hydrologic group hydrogroup_data holds for the mukey of polygon q, None
\* when it holds none
GroupOfPolygon(q) ==
    IF AssignedRows(soils_gdf[q]) = {} THEN None
    ELSE hydrogroup_data[CHOOSE j \in AssignedRows(soils_gdf[q]) : TRUE].hydgrp

\* label out is label g with every "/" written as "-" and nothing else changed
Normalized(g, out) ==
    /\ Len(out) = Len(g)
    /\ \A i \in 1..Len(g) : out[i] = (IF g[i] = "/" THEN "-" ELSE g[i])

\* C11: in ssurgo_soil_classes.gpkg every group label has each "/" replaced by
\* "-", a label without "/" is unchanged, and no polygon has an undefined
\* label: every row carries the normalized group of the polygons it is made
\* of, and a polygon without a group is in no row.
C11_LabelNormalization ==
    Classified =>
        /\ \A j \in 1..Len(soil_classes) :
              /\ soil_classes[j].Soil_Class # None
              /\ \A i \in 1..Len(soil_classes[j].Soil_Class) :
                    soil_classes[j].Soil_Class[i] # "/"
              /\ soil_classes[j].geometry # {}
              /\ \A q \in soil_classes[j].geometry :
                    /\ GroupOfPolygon(q) # None
                    /\ Normalized(GroupOfPolygon(q), soil_classes[j].Soil_Class)
        /\ \A q \in 1..Len(soils_gdf) :
              GroupOfPolygon(q) # None =>
                  \E j \in 1..Len(soil_classes) : q \in soil_classes[j].geometry

\* a classification whose output holds the label A-D and the label B, from
\* polygons of which one has no group
C11_Witness ==
    /\ Classified
    /\ \E j \in 1..Len(soil_classes) : soil_classes[j].Soil_Class = <<"A", "-", "D">>
    /\ \E j \in 1..Len(soil_classes) : soil_classes[j].Soil_Class = <<"B">>
    /\ \E q \in 1..Len(soils_gdf) : GroupOfPolygon(q) = None

(***************************************************************************)
(* Claims about convert_to_mannings, checked under SpecMannings.           *)
(***************************************************************************)

\* the mannings_n of the last row of the lookup frame with value k
LookupValue(k) ==
    LET last == CHOOSE j \in 1..Len(df) :
                    /\ df[j][1] = k
                    /\ \A i \in 1..Len(df) : df[i][1] = k => i <= j
    IN  df[last][2]

HasEntry(k) == \E j \in 1..Len(df) : df[j][1] = k

\* C9: the grid convert_to_mannings writes has the shape of its input; each
\* cell is the lookup value of the input cell's code, and the cell of a code
\* without a lookup entry is undefined (NaN), not zero; the call returns.
C9_ConvertToMannings ==
    mpc = "done" =>
        /\ <<dst.height, dst.width>> = Shape(image)
        /\ Shape(dst.band) = Shape(image)
        /\ \A r \in 1..Len(image) : \A c \in 1..Len(image[r]) :
              IF HasEntry(image[r][c])
                  THEN dst.band[r][c] =
                          [kind |-> "float32", v |-> LookupValue(image[r][c])]
                  ELSE dst.band[r][c].kind = "nan"

\* a converted raster of two rows and two columns that holds a code with an
\* entry and a code without one
C9_Witness ==
    /\ mpc = "done"
    /\ Shape(image) = <<2, 2>>
    /\ \E r \in 1..2 : \E c \in 1..2 : HasEntry(image[r][c])
    /\ \E r \in 1..2 : \E c \in 1..2 : ~HasEntry(image[r][c])

(***************************************************************************)
(* Claims about the clip to the AOI, checked under SpecClip.  A pixel      *)
(* carries data when its value is not the fill value of the mask.          *)
(***************************************************************************)

\* C6: after the clip every feature of ssurgo_data.gpkg lies within the AOI,
\* and every pixel of nlcd_clip.tif and mannings_n_clip.tif that carries a
\* data value lies within the AOI.
C6_ClipContainment ==
    /\ (cpc = "done" /\ coutcome = "ok" /\ merged_gdf # NoFeatures) =>
          \A f \in ssurgo_gpkg.features :
              f.geometry # {} /\ f.geometry \subseteq clip_gdf.cells
    /\ \A path \in clipped :
          \A c \in rasters[path].window :
              rasters[path].band[c] # Fill(rasters[path]) => c \in clip_gdf.cells

\* both rasters are clipped to an AOI that leaves a pixel of its bounding
\* window outside, where the mosaic held a data value
C6_Witness ==
    /\ clipped = {"nlcd_clip.tif", "mannings_n_clip.tif"}
    /\ \E c \in rasters["mannings_n_clip.tif"].window : c \notin clip_gdf.cells
    /\ \E c \in rasters["nlcd_clip.tif"].window :
          c \notin clip_gdf.cells /\ rasters["nlcd_clip.tif"].nodata # << >>

\* C16: the clip leaves what it was given unchanged: the merged features and
\* the AOI frame keep their content and their CRS, the raster file at the
\* input path keeps its content, and the clipped result is another dataset.
C16_ClipInputsUnchanged ==
    /\ merged_gdf = clip_inputs.merged_gdf
    /\ clip_gdf = clip_inputs.gdf
    /\ \A path \in clipped : rasters[path] = clip_inputs.rasters[path]

(***************************************************************************)
(* Claims about the requests built from the tile list, checked under       *)
(* SpecUrl.                                                                *)
(***************************************************************************)

\* C12: every tile of the list becomes one request, in the order of the
\* list, and the request carries the bounds of its own tile in the places
\* the service reads them: BBOX=min_x,min_y,max_x,max_y for the vector
\* service, Y(min_y,max_y) and X(min_x,max_x) for the raster service.  The
\* requests built so far are those of the first tiles of the list; a loop
\* that reaches its end has built one for every tile.
C12_RequestCoordinates ==
    /\ Len(url_list) <= Len(u_tile_extents)
    /\ upc = "done" => Len(url_list) = Len(u_tile_extents)
    /\ \A j \in 1..Len(url_list) :
          LET ext == u_tile_extents[j]
              url == url_list[j]
          IN  IF u_pipeline = "vector"
                  THEN url.BBOX = <<ext[1], ext[3], ext[2], ext[4]>>
                  ELSE url.Y = <<ext[3], ext[4]>> /\ url.X = <<ext[1], ext[2]>>

\* the loop of the vector pipeline has ended on a list of two different tiles
C12_Witness ==
    /\ upc = "done"
    /\ u_pipeline = "vector"
    /\ Len(url_list) = 2
    /\ u_tile_extents[1] # u_tile_extents[2]

(***************************************************************************)
(* Claims about get_data, checked under SpecGetData.                       *)
(***************************************************************************)

\* C14: get_data makes at most 3 reads and returns either [dataset, None] or
\* [None, url]; it returns the dataset when at least one of the reads read a
\* dataset that is not empty, and marks the url failed only when none did.
C14_GetDataAttempts ==
    /\ Len(attempts) <= 3
    /\ gpc = "done" =>
          /\ \/ get_data_result[1] # None /\ get_data_result[2] = None
             \/ get_data_result[1] = None /\ get_data_result[2] = wfs_url
          /\ get_data_result[1] # None <=>
                \E a \in 1..Len(attempts) : attempts[a] = "data"

====
